---- MODULE Spec2Model ----
(***************************************************************************)
(* Model of src/main.py (secret santa): one run of main() -- the people    *)
(* registry and the output file are read, the list of possible pairs is    *)
(* computed and shuffled, the chain of santas is built by bounded retry,   *)
(* the result is saved in the output file and the mails are sent.          *)
(*                                                                         *)
(* A person is the tuple <<name, mail>> of the source.  A YAML file is the *)
(* sequence of its lines; a loaded YAML mapping is the sequence of its     *)
(* items <<key, value>> in file order (ruamel keeps the order).            *)
(***************************************************************************)
EXTENDS Integers, Sequences, FiniteSets, TLC

VARIABLES
    pc,               \* position of the run in main() / get_santas_list()
    config_sublist,   \* answer to "Which yaml sublist to take ?"
    nb_years,         \* private_config["year_before_repeat"]
    input_file,       \* input_mail_list.yaml, as loaded by yaml.load
    output_file,      \* output_mail_list.yaml: [exists, lines]
    list_people,      \* get_santas_list: list_people
    answer,           \* get_santas_list: answer ("Would you like to shuffle list ?")
    possible_list,    \* get_santas_list: possible_list
    list_santas,      \* get_santas_list: list_santas
    first_run,        \* get_santas_list: first_run
    iteration,        \* get_santas_list: iteration
    santa,            \* get_santas_list: santa
    next_santa,       \* get_santas_list: next_santa
    main_list_people, \* main: list_people (value returned by get_santas_list)
    mails             \* send_email: the (CFG_RECIPIENT, CFG_TARGET) of each mail sent

vars == <<pc, config_sublist, nb_years, input_file, output_file, list_people,
          answer, possible_list, list_santas, first_run, iteration, santa, next_santa,
          main_list_people, mails>>

-----------------------------------------------------------------------------
(* Bounds of the model and constants of the program *)

MaxYears == 2

max_iteration == 1000

\* datetime.now().year: the past editions are the years 1 .. CurrentYear - 1
CurrentYear == MaxYears + 1

\* value of a local variable that is not bound yet
Unbound == "<unbound>"

\* None, in the shape of a person
NonePerson == <<"<None>", "<None>">>

-----------------------------------------------------------------------------
(* Sequence helpers (Python list idioms) *)

Range(s) == {s[i] : i \in 1..Len(s)}

\* the lists of a list, joined in order
RECURSIVE Concat(_)
Concat(ss) == IF ss = <<>> THEN <<>> ELSE Head(ss) \o Concat(Tail(ss))

\* index of the first element of a list of tuples whose first field is key, 0 if none
FirstIndex(s, key) ==
    IF \E i \in 1..Len(s) : s[i][1] = key
    THEN CHOOSE i \in 1..Len(s) :
            /\ s[i][1] = key
            /\ \A j \in 1..(i - 1) : s[j][1] # key
    ELSE 0

-----------------------------------------------------------------------------
(* The YAML text of the output file *)

BlankLine == [ind |-> 0, key |-> "", val |-> ""]

\* yaml.dump of one top-level section: "label:" followed by its indented
\* "name: mail" lines; an empty mapping is dumped in flow style, "label: {}"
DumpSection(item) ==
    <<[ind |-> 0, key |-> item[1], val |-> IF item[2] = <<>> THEN "{}" ELSE ""]>>
    \o [i \in 1..Len(item[2]) |->
          [ind |-> 1, key |-> item[2][i][1], val |-> item[2][i][2]]]

yaml_dump(data) == Concat([i \in 1..Len(data) |-> DumpSection(data[i])])

\* yaml.load of the lines: blank lines are skipped, a line at column 0 opens a
\* section, an indented line is an item of the section that is open
RECURSIVE yaml_load(_)
yaml_load(lines) ==
    IF lines = <<>> THEN <<>>
    ELSE LET l == lines[Len(lines)]
             rest == yaml_load(SubSeq(lines, 1, Len(lines) - 1))
         IN IF l = BlankLine THEN rest
            ELSE IF l.ind = 0 THEN Append(rest, <<l.key, <<>>>>)
            ELSE [rest EXCEPT ![Len(rest)][2] = Append(@, <<l.key, l.val>>)]

\* "".join(...).strip(): the blank lines at both ends are removed
RECURSIVE Strip(_)
Strip(lines) ==
    IF lines = <<>> THEN <<>>
    ELSE IF Head(lines) = BlankLine THEN Strip(Tail(lines))
    ELSE IF lines[Len(lines)] = BlankLine THEN Strip(SubSeq(lines, 1, Len(lines) - 1))
    ELSE lines

\* main.py:319-331: empty lines are dropped, an empty line is inserted before
\* each line that starts with a top-level key, and the text is stripped
FormatSections(sections) ==
    Strip(Concat([i \in 1..Len(sections) |->
        IF sections[i] = BlankLine THEN <<>>
        ELSE IF sections[i].ind = 0 THEN <<BlankLine, sections[i]>>
        ELSE <<sections[i]>>]))

-----------------------------------------------------------------------------
(* get_people *)

\* f"year_{year}"
YearLabel(year) == "year_" \o ToString(year)

\* main.py:139-142
InputSublist(sublist, year) ==
    IF sublist = "test_config" THEN "test_config" ELSE YearLabel(year)

\* open(input_file) and yaml.load(info) of the registry, which is there
OpenInput == [raised |-> FALSE, data |-> input_file]

\* the same of the output file: a missing file raises FileNotFoundError
OpenOutput(file) ==
    IF file.exists THEN [raised |-> FALSE, data |-> yaml_load(file.lines)]
    ELSE [raised |-> TRUE, data |-> <<>>]

\* main.py:144-159 on the loaded file: yaml.load(info)[input_sublist] raises
\* KeyError when the file has no such section
get_people(loaded, sublist, year) ==
    LET label == InputSublist(sublist, year)
        at == FirstIndex(loaded.data, label)
    IN IF loaded.raised \/ at = 0
       THEN [raised |-> TRUE, people |-> <<>>, unwanted |-> <<>>]
       ELSE LET dict_info_people == loaded.data[at][2]
                u == FirstIndex(dict_info_people, "unwanted")
            IN IF dict_info_people = <<>>
               THEN [raised |-> FALSE, people |-> <<>>, unwanted |-> <<>>]
               ELSE IF u # 0
               THEN [raised |-> FALSE,
                     people |-> SubSeq(dict_info_people, 1, u - 1)
                                \o SubSeq(dict_info_people, u + 1, Len(dict_info_people)),
                     unwanted |-> dict_info_people[u][2]]
               ELSE [raised |-> FALSE, people |-> dict_info_people, unwanted |-> <<>>]

-----------------------------------------------------------------------------
(* compute_all_possibilities *)

\* list(permutations(names, 2)): the pairs of two different positions, in
\* the order of the positions
Permutations2(names) ==
    LET n == Len(names)
        at == [k \in 1..(n * n) |-> <<((k - 1) \div n) + 1, ((k - 1) % n) + 1>>]
        differ(p) == p[1] # p[2]
        kept == SelectSeq(at, differ)
    IN [k \in 1..Len(kept) |-> <<names[kept[k][1]], names[kept[k][2]]>>]

\* a slip that forgets the pair from the last person back to the first
OldPairs_NoWrap(old_list_people) ==
    [i \in 1..(Len(old_list_people) - 1) |->
        <<old_list_people[i][1], old_list_people[i + 1][1]>>]

\* main.py:196-199
OldPairs(old_list_people) ==
    [i \in 1..Len(old_list_people) |->
        <<old_list_people[i][1],
          old_list_people[(i % Len(old_list_people)) + 1][1]>>]

\* a slip that takes only the first target of each unwanted entry
UnwantedPairs_FirstTarget(list_unwanted) ==
    Concat([u \in 1..Len(list_unwanted) |->
        IF list_unwanted[u][2] = <<>> THEN <<>>
        ELSE << <<list_unwanted[u][1], list_unwanted[u][2][1]>> >>])

\* main.py:205-208
UnwantedPairs(list_unwanted) ==
    Concat([u \in 1..Len(list_unwanted) |->
        [t \in 1..Len(list_unwanted[u][2]) |->
            <<list_unwanted[u][1], list_unwanted[u][2][t]>>]])

\* [pair for pair in all_pairs if pair not in removed]
Without(all_pairs, removed) ==
    LET keep(pair) == pair \notin Range(removed)
    IN SelectSeq(all_pairs, keep)

\* main.py:188-202: the loop over the nb_years previous years, years i .. nb - 1
RECURSIVE RemoveOldPairs(_, _, _, _, _)
RemoveOldPairs(all_pairs, file, sublist, i, nb) ==
    IF i >= nb THEN [raised |-> FALSE, pairs |-> all_pairs]
    ELSE LET old == get_people(OpenOutput(file), sublist, CurrentYear - i - 1)
         IN IF old.raised THEN [raised |-> TRUE, pairs |-> <<>>]
            ELSE RemoveOldPairs(Without(all_pairs, OldPairs(old.people)),
                                file, sublist, i + 1, nb)

compute_all_possibilities(file, sublist, nb) ==
    LET got == get_people(OpenInput, sublist, CurrentYear)
        names == [i \in 1..Len(got.people) |-> got.people[i][1]]
        all_pairs == RemoveOldPairs(Permutations2(names), file, sublist, 0, nb)
    IN IF got.raised \/ all_pairs.raised THEN [raised |-> TRUE, pairs |-> <<>>]
       ELSE [raised |-> FALSE,
             pairs |-> Without(all_pairs.pairs, UnwantedPairs(got.unwanted))]

-----------------------------------------------------------------------------
(* get_santas_list *)

\* random.shuffle: every ordering of the list
Shuffles(s) ==
    {[i \in 1..Len(s) |-> s[p[i]]] : p \in Permutations(1..Len(s))}

\* a slip that compares the name with person[1], the mail
FindPerson_ByMail(people, name) ==
    IF \E i \in 1..Len(people) : people[i][2] = name
    THEN people[CHOOSE i \in 1..Len(people) : people[i][2] = name]
    ELSE NonePerson

\* next((person for person in list_people if person[0] == name), None)
FindPerson(people, name) ==
    IF FirstIndex(people, name) = 0 THEN NonePerson
    ELSE people[FirstIndex(people, name)]

\* a slip that removes only the pairs that begin with the santa
RemoveSanta_SourceOnly(pairs, s) ==
    LET keep(pair) == s # pair[1]
    IN SelectSeq(pairs, keep)

\* main.py:266: [pair for pair in possible_list if santa not in pair]
RemoveSanta(pairs, s) ==
    LET keep(pair) == s # pair[1] /\ s # pair[2]
    IN SelectSeq(pairs, keep)

-----------------------------------------------------------------------------
(* save_people *)

\* dict(list_people): a name that comes again keeps its place and takes the
\* later mail
RECURSIVE Dict(_)
Dict(people) ==
    IF people = <<>> THEN <<>>
    ELSE LET d == Dict(SubSeq(people, 1, Len(people) - 1))
             p == people[Len(people)]
             at == FirstIndex(d, p[1])
         IN IF at = 0 THEN Append(d, p) ELSE [d EXCEPT ![at] = p]

\* a slip that always adds the entry at the end
Update_Append(data, key, value) == Append(data, <<key, value>>)

\* data.update(new_entry): the value of a key that exists is replaced in
\* place, a new key is added at the end
Update(data, key, value) ==
    IF FirstIndex(data, key) = 0 THEN Append(data, <<key, value>>)
    ELSE [data EXCEPT ![FirstIndex(data, key)] = <<key, value>>]

\* main.py:300-335
save_people(people, file) ==
    LET data == IF file.exists THEN yaml_load(file.lines) ELSE <<>>
        updated == Update(data, YearLabel(CurrentYear), Dict(people))
    IN [exists |-> TRUE, lines |-> FormatSections(yaml_dump(updated))]

-----------------------------------------------------------------------------
(* send_email *)

\* main.py:429-435: each person with the one that follows, cyclically
MailPairs(people) ==
    [i \in 1..Len(people) |-> <<people[i][1], people[(i % Len(people)) + 1][1]>>]

-----------------------------------------------------------------------------
(* The inputs of a run *)

Person(name) == <<name, name \o "@mail">>

People(names) == [i \in 1..Len(names) |-> Person(names[i])]

\* the registries: the people of this year and their unwanted targets
Registries ==
    { People(<<>>),
      People(<<"A">>),
      People(<<"A", "B">>),
      People(<<"A", "B", "C">>),
      People(<<"A", "B">>) \o << <<"unwanted", << <<"B", <<"A">>>> >> >> >>,
      People(<<"A", "B", "C">>) \o << <<"unwanted", << <<"A", <<"B">>>> >> >> >>,
      People(<<"A", "B", "C">>) \o
        << <<"unwanted", << <<"A", <<"B", "C">>>>, <<"B", <<"A", "C">>>>,
                            <<"C", <<"A", "B">>>> >> >> >>,
      People(<<"A", "B", "C", "D">>) \o
        << <<"unwanted", << <<"A", <<"B", "C">>>>, <<"B", <<"D">>>>,
                            <<"C", <<"A">>>>, <<"D", <<"A", "B">>>> >> >> >> }

\* a file written by the program: the formatted dump of its sections
Written(data) == [exists |-> TRUE, lines |-> FormatSections(yaml_dump(data))]

OutputFiles ==
    { [exists |-> FALSE, lines |-> <<>>],
      Written(<< <<YearLabel(CurrentYear - 1), People(<<"A", "B", "C">>)>> >>),
      Written(<< <<YearLabel(CurrentYear - 2), People(<<"A", "C", "B">>)>>,
                 <<YearLabel(CurrentYear - 1), People(<<"A", "B", "C">>)>> >>),
      Written(<< <<YearLabel(CurrentYear - 2), People(<<"A", "B">>)>>,
                 <<YearLabel(CurrentYear - 1), <<>>>> >>),
      Written(<< <<YearLabel(CurrentYear - 1), People(<<"A", "B", "C">>)>>,
                 <<YearLabel(CurrentYear), People(<<"A", "C", "B">>)>>,
                 <<"test_config", People(<<"A", "B", "C">>)>> >>) }

Sublists == {"test_config", "family"}

Answers == {"y", "n"}

-----------------------------------------------------------------------------
(* The run *)

Init ==
    /\ pc = "main"
    /\ config_sublist \in Sublists
    /\ nb_years \in 0..MaxYears
    /\ \E registry \in Registries :
          input_file = << <<InputSublist(config_sublist, CurrentYear), registry>> >>
    /\ output_file \in OutputFiles
    /\ list_people = <<>>
    /\ answer = Unbound
    /\ possible_list = <<>>
    /\ list_santas = <<>>
    /\ first_run = TRUE
    /\ iteration = 0
    /\ santa = Unbound
    /\ next_santa = Unbound
    /\ main_list_people = <<>>
    /\ mails = <<>>

\* main.py:229-235 with the answer "n": the list is returned as it was read
ReturnUnshuffled ==
    /\ pc = "main"
    /\ answer' \in Answers
    /\ answer' # "y"
    /\ LET got == get_people(OpenInput, config_sublist, CurrentYear)
       IN /\ list_people' = got.people
          /\ main_list_people' = got.people
    /\ pc' = "returned"
    /\ UNCHANGED <<config_sublist, nb_years, input_file, output_file,
                   possible_list, list_santas, first_run, iteration, santa,
                   next_santa, mails>>

\* main.py:229-237 with the answer "y": the possible pairs are computed; an
\* exception of get_people ends the run
ComputePossibilities ==
    /\ pc = "main"
    /\ answer' \in Answers
    /\ answer' = "y"
    /\ LET got == get_people(OpenInput, config_sublist, CurrentYear)
           all == compute_all_possibilities(output_file, config_sublist, nb_years)
       IN /\ list_people' = got.people
          /\ IF all.raised
             THEN /\ pc' = "raised"
                  /\ UNCHANGED possible_list
             ELSE /\ pc' = "shuffle"
                  /\ possible_list' = all.pairs
    /\ UNCHANGED <<config_sublist, nb_years, input_file, output_file,
                   list_santas, first_run, iteration, santa, next_santa,
                   main_list_people, mails>>

\* main.py:240-244
Shuffle ==
    /\ pc = "shuffle"
    /\ possible_list' \in Shuffles(possible_list)
    /\ list_santas' = <<>>
    /\ first_run' = TRUE
    /\ iteration' = 0
    /\ pc' = "while"
    /\ UNCHANGED <<config_sublist, nb_years, input_file, output_file,
                   list_people, answer, santa, next_santa, main_list_people,
                   mails>>

\* the condition of the inner while, main.py:246
InChain == Len(list_santas) < Len(list_people) /\ possible_list # <<>>

\* the santa of this step, main.py:247-252
StepSanta == IF first_run THEN possible_list[1][1] ELSE next_santa

\* main.py:246-274: one turn of the inner while that places a santa
ChainStep ==
    /\ pc = "while"
    /\ iteration < max_iteration
    /\ InChain
    /\ first_run \/ FirstIndex(possible_list, StepSanta) # 0
    /\ santa' = StepSanta
    /\ next_santa' = IF first_run THEN possible_list[1][2]
                     ELSE possible_list[FirstIndex(possible_list, StepSanta)][2]
    /\ first_run' = FALSE
    /\ possible_list' = RemoveSanta(possible_list, santa')
    /\ LET placed == Append(list_santas, FindPerson(list_people, santa'))
       IN list_santas' =
            IF Len(placed) = Len(list_people) - 1
            THEN Append(placed, FindPerson(list_people, next_santa'))
            ELSE placed
    /\ UNCHANGED <<pc, config_sublist, nb_years, input_file, output_file,
                   list_people, answer, iteration, main_list_people, mails>>

\* main.py:252-259 and 276-281: no pair begins with the santa, the inner while
\* is left by the break and the attempt is given up
ChainBreak ==
    /\ pc = "while"
    /\ iteration < max_iteration
    /\ InChain
    /\ ~first_run
    /\ FirstIndex(possible_list, next_santa) = 0
    /\ santa' = next_santa
    /\ first_run' = TRUE
    /\ list_santas' = <<>>
    /\ iteration' = iteration + 1
    /\ UNCHANGED <<pc, config_sublist, nb_years, input_file, output_file,
                   list_people, answer, possible_list, next_santa,
                   main_list_people, mails>>

\* main.py:276-277 and 283-284: the list is complete, it is returned
AttemptSucceeds ==
    /\ pc = "while"
    /\ iteration < max_iteration
    /\ ~InChain
    /\ Len(list_santas) = Len(list_people)
    /\ main_list_people' = list_santas
    /\ pc' = "returned"
    /\ UNCHANGED <<config_sublist, nb_years, input_file, output_file,
                   list_people, answer, possible_list, list_santas,
                   first_run, iteration, santa, next_santa, mails>>

\* a slip that gives up at the first attempt that fails
AttemptFails_Exit ==
    /\ pc = "while"
    /\ iteration < max_iteration
    /\ ~InChain
    /\ Len(list_santas) # Len(list_people)
    /\ pc' = "exit"
    /\ UNCHANGED <<config_sublist, nb_years, input_file, output_file,
                   list_people, answer, possible_list, list_santas,
                   first_run, iteration, santa, next_santa, main_list_people,
                   mails>>

\* main.py:276-281: the inner while ended with an incomplete list
AttemptFails ==
    /\ pc = "while"
    /\ iteration < max_iteration
    /\ ~InChain
    /\ Len(list_santas) # Len(list_people)
    /\ first_run' = TRUE
    /\ list_santas' = <<>>
    /\ iteration' = iteration + 1
    /\ UNCHANGED <<pc, config_sublist, nb_years, input_file, output_file,
                   list_people, answer, possible_list, santa, next_santa,
                   main_list_people, mails>>

\* main.py:245 and 283-287: max_iteration is reached
Exhausted ==
    /\ pc = "while"
    /\ iteration >= max_iteration
    /\ IF Len(list_santas) = Len(list_people)
       THEN /\ main_list_people' = list_santas
            /\ pc' = "returned"
       ELSE /\ pc' = "exit"
            /\ UNCHANGED main_list_people
    /\ UNCHANGED <<config_sublist, nb_years, input_file, output_file,
                   list_people, answer, possible_list, list_santas,
                   first_run, iteration, santa, next_santa, mails>>

\* main.py:61-65; dict() of a list that holds None raises TypeError
SavePeople ==
    /\ pc = "returned"
    /\ IF NonePerson \in Range(main_list_people)
       THEN /\ pc' = "raised"
            /\ UNCHANGED output_file
       ELSE /\ pc' = "saved"
            /\ output_file' = save_people(main_list_people, output_file)
    /\ UNCHANGED <<config_sublist, nb_years, input_file, list_people, answer,
                   possible_list, list_santas, first_run, iteration, santa,
                   next_santa, main_list_people, mails>>

\* main.py:67-70 and 429-451
SendEmail ==
    /\ pc = "saved"
    /\ \E main_answer \in Answers :
          IF main_answer = "y"
          THEN /\ mails' = MailPairs(main_list_people)
               /\ pc' = "sent"
          ELSE /\ pc' = "done"
               /\ UNCHANGED mails
    /\ UNCHANGED <<config_sublist, nb_years, input_file, output_file,
                   list_people, answer, possible_list, list_santas,
                   first_run, iteration, santa, next_santa,
                   main_list_people>>

Next ==
    \/ ReturnUnshuffled
    \/ ComputePossibilities
    \/ Shuffle
    \/ ChainStep
    \/ ChainBreak
    \/ AttemptSucceeds
    \/ AttemptFails
    \/ Exhausted
    \/ SavePeople
    \/ SendEmail

Spec == Init /\ [][Next]_vars

-----------------------------------------------------------------------------
(* What the properties speak of, read from the inputs of the run *)

\* the section of the registry that the run reads
Registry == input_file[1][2]

Participants ==
    {Registry[i][1] : i \in {j \in 1..Len(Registry) : Registry[j][1] # "unwanted"}}

\* b is in the unwanted list of a
IsUnwanted(a, b) ==
    \E i \in 1..Len(Registry) :
        /\ Registry[i][1] = "unwanted"
        /\ \E u \in 1..Len(Registry[i][2]) :
              /\ Registry[i][2][u][1] = a
              /\ b \in Range(Registry[i][2][u][2])

\* the editions recorded in the output file
History == IF output_file.exists THEN yaml_load(output_file.lines) ELSE <<>>

\* the label of the k-th last edition
EditionLabel(k) == InputSublist(config_sublist, CurrentYear - k)

HasEdition(k) == \E i \in 1..Len(History) : History[i][1] = EditionLabel(k)

Edition(k) == History[FirstIndex(History, EditionLabel(k))][2]

\* b follows a, cyclically, in one of the last nb_years editions
GaveTo(a, b) ==
    \E k \in 1..nb_years :
        /\ HasEdition(k)
        /\ \E j \in 1..Len(Edition(k)) :
              /\ Edition(k)[j][1] = a
              /\ Edition(k)[(j % Len(Edition(k))) + 1][1] = b

\* a -> b is an edge of the compatibility graph
Allowed(a, b) == a # b /\ ~IsUnwanted(a, b) /\ ~GaveTo(a, b)

AllowedPairs == {p \in Participants \X Participants : Allowed(p[1], p[2])}

\* the give-to pairs of a list read as a cycle
CyclicPairs(people) ==
    {<<people[i][1], people[(i % Len(people)) + 1][1]>> : i \in 1..Len(people)}

\* the shuffle was asked for
Searched == answer = "y"

\* get_santas_list returned a list found by the search
SearchReturned == Searched /\ pc \in {"returned", "saved", "sent", "done"}

\* the pairs of the list are exactly the edges of the compatibility graph
IsGraph(pairs) ==
    /\ Range(pairs) = AllowedPairs
    /\ Len(pairs) = Cardinality(AllowedPairs)

-----------------------------------------------------------------------------
(* Properties *)

\* C1: every cyclic consecutive pair of a returned assignment, the closing
\* pair from the last to the first included, is an edge of the compatibility
\* graph (not unwanted, not a pair of one of the last nb_years editions).
C1_CyclicPairsAllowed ==
    SearchReturned => CyclicPairs(main_list_people) \subseteq AllowedPairs

\* C2: with at least 2 participants, a returned assignment holds every
\* participant exactly once: same length, no name twice, no name left out, no
\* None.
C2_ReturnedIsPermutation ==
    (SearchReturned /\ Cardinality(Participants) >= 2) =>
        /\ Len(main_list_people) = Cardinality(Participants)
        /\ {main_list_people[i][1] : i \in 1..Len(main_list_people)} = Participants
        /\ NonePerson \notin Range(main_list_people)
        /\ \A i, j \in 1..Len(main_list_people) :
              main_list_people[i][1] = main_list_people[j][1] => i = j

C2_Witness ==
    /\ SearchReturned
    /\ pc = "returned"
    /\ Len(main_list_people) = 4

\* C3: every attempt, each retry included, starts from an ordering of the
\* complete edge list of the compatibility graph.
C3_AttemptStartsFromAllPairs ==
    (pc = "while" /\ iteration < max_iteration /\ first_run /\ list_santas = <<>>)
        => IsGraph(possible_list)

\* 3 participants and a compatibility graph without any edge, the search begun
EmptyGraph3 ==
    /\ Searched
    /\ pc \in {"shuffle", "while", "exit", "returned", "saved", "sent", "done"}
    /\ Cardinality(Participants) = 3
    /\ AllowedPairs = {}

\* C4: the search gives up only with the attempt counter at max_iteration;
\* with 3 participants and no edge it never returns a list and does not stop
\* before it gives up.
C4_InfeasibleAfterAllAttempts ==
    /\ pc = "exit" => iteration = max_iteration
    /\ EmptyGraph3 =>
          /\ ~SearchReturned
          /\ pc # "exit" => ENABLED Next

C4_Witness ==
    /\ EmptyGraph3
    /\ pc = "exit"
    /\ iteration = max_iteration

\* C5: with fewer than 2 participants the run fails at once: no attempt of
\* the search is made, no list is returned, nothing is recorded.
C5_TooFewPeopleFailsAtOnce ==
    (Searched /\ Cardinality(Participants) < 2) =>
        /\ iteration = 0
        /\ pc \notin {"exit", "returned", "saved", "sent", "done"}

\* C6: when the output file holds some of the last nb_years editions and
\* lacks another, the absent edition is skipped and the run is not ended by
\* the missing entry.
C6_MissingEditionIsSkipped ==
    ( /\ Searched
      /\ Cardinality(Participants) >= 2
      /\ \E k \in 1..nb_years : HasEdition(k)
      /\ \E k \in 1..nb_years : ~HasEdition(k) ) => pc # "raised"

\* A, B, C without unwanted pairs, one year back, the last edition [A, B, C]
C7_Scenario ==
    /\ Searched
    /\ Registry = People(<<"A", "B", "C">>)
    /\ nb_years = 1
    /\ HasEdition(1)
    /\ Edition(1) = People(<<"A", "B", "C">>)

\* C7: in that scenario every run of the search succeeds and returns the
\* cycle A -> C, C -> B, B -> A.
C7_ConvergesToOnlyCycle ==
    C7_Scenario =>
        /\ pc \notin {"exit", "raised"}
        /\ pc = "while" => iteration = 0
        /\ SearchReturned =>
              /\ Len(main_list_people) = 3
              /\ CyclicPairs(main_list_people)
                    = {<<"A", "C">>, <<"C", "B">>, <<"B", "A">>}

C7_Witness == C7_Scenario /\ pc = "returned"

\* C8: the list returned by compute_all_possibilities holds the pair (a, b)
\* of participants exactly when a # b, b is not unwanted by a and b does not
\* follow a in one of the last nb_years editions; pairs of an edition with a
\* person who left remove nothing.
C8_PossibilitiesAreAllowedPairs ==
    pc = "shuffle" => IsGraph(possible_list)

C8_Witness ==
    /\ pc = "shuffle"
    /\ nb_years >= 1
    /\ HasEdition(1)
    /\ \E j \in 1..Len(Edition(1)) : Edition(1)[j][1] \notin Participants
    /\ \E a, b \in Participants : GaveTo(a, b)
    /\ possible_list # <<>>

\* C9: to record the same list again under the same edition changes
\* nothing, and the edition is in the file exactly once, with the list
\* recorded, also when it had an entry before.
C9_RecordIdempotent ==
    pc = "saved" =>
        /\ save_people(main_list_people, output_file) = output_file
        /\ Cardinality({i \in 1..Len(output_file.lines) :
              /\ output_file.lines[i].ind = 0
              /\ output_file.lines[i].key = YearLabel(CurrentYear)}) = 1
        /\ History[FirstIndex(History, YearLabel(CurrentYear))][2] = main_list_people

C9_Witness ==
    /\ pc = "saved"
    /\ Searched
    /\ main_list_people # <<>>
    /\ FirstIndex(History, YearLabel(CurrentYear)) < Len(History)

\* C10: all along an attempt and in the returned list, each pair of
\* neighbours but the closing one is an edge of the compatibility graph and
\* its target was not placed before; no pair of the pool mentions a placed
\* participant.
C10_ChainFollowsPool ==
    (Searched /\ pc \in {"while", "returned"}) =>
        /\ \A i \in 1..(Len(list_santas) - 1) :
              /\ <<list_santas[i][1], list_santas[i + 1][1]>> \in AllowedPairs
              /\ \A j \in 1..i : list_santas[j][1] # list_santas[i + 1][1]
        /\ \A i \in 1..Len(possible_list) : \A j \in 1..Len(list_santas) :
              /\ possible_list[i][1] # list_santas[j][1]
              /\ possible_list[i][2] # list_santas[j][1]

C10_Witness ==
    /\ pc = "while"
    /\ Len(list_people) = 4
    /\ Len(list_santas) = 2
    /\ possible_list # <<>>

====
